---- MODULE Spec2Model ----
(***************************************************************************)
(* A model of src/codegeneration/GeneratorTransformPass.js                *)
(* (traceur-compiler): the YieldExpressionTransformer, which factors a    *)
(* yield out of an assignment, a declaration or a return, and the         *)
(* GeneratorTransformPass, which decides per function body which          *)
(* sub-passes run and in which order.                                     *)
(*                                                                         *)
(* Parse trees are records tagged by `type`.  Statements, function bodies *)
(* and function-bearing nodes carry `ref`, the identity of the JavaScript *)
(* object: every node of the input tree has its own positive ref, and a   *)
(* node constructed during a transform has ref 0.  The code only ever     *)
(* compares a returned node with an input node (body === tree.body), so   *)
(* record equality on nodes with refs is the code's ===.                  *)
(***************************************************************************)
EXTENDS Integers, Sequences, FiniteSets

VARIABLES
  transformOptions,  \* the module-level options: generators, deferredFunctions
  tree,              \* the node a transform method is called on
  method,            \* the transform method that ran ("" before the call)
  result,            \* the node it returned
  log,               \* one entry per function body transformBody_ processed
  pc                 \* "ready" before the call, "done" after it

vars == <<transformOptions, tree, method, result, log, pc>>

\* ------------------------------------------------------------------ bounds

MaxTail == 2
MaxParen == 2
MaxBody == 2

\* ------------------------------------------------------- tokens and types

EQUAL == "="
PLUS_EQUAL == "+="

BINARY_OPERATOR == "BINARY_OPERATOR"
COMMA_EXPRESSION == "COMMA_EXPRESSION"
PAREN_EXPRESSION == "PAREN_EXPRESSION"
YIELD_EXPRESSION == "YIELD_EXPRESSION"
IDENTIFIER_EXPRESSION == "IDENTIFIER_EXPRESSION"
MEMBER_EXPRESSION == "MEMBER_EXPRESSION"
FUNCTION_EXPRESSION == "FUNCTION_EXPRESSION"
FUNCTION_DECLARATION == "FUNCTION_DECLARATION"
GET_ACCESSOR == "GET_ACCESSOR"
SET_ACCESSOR == "SET_ACCESSOR"
FUNCTION_BODY == "FUNCTION_BODY"
EXPRESSION_STATEMENT == "EXPRESSION_STATEMENT"
VARIABLE_STATEMENT == "VARIABLE_STATEMENT"
RETURN_STATEMENT == "RETURN_STATEMENT"
AWAIT_STATEMENT == "AWAIT_STATEMENT"
FOR_IN_STATEMENT == "FOR_IN_STATEMENT"
FOR_STATEMENT == "FOR_STATEMENT"
BLOCK == "BLOCK"
STATE_MACHINE == "STATE_MACHINE"

\* JavaScript's null / undefined, where a field holds no node.
Null == [type |-> "NULL"]

\* ------------------------------------------------- parse tree constructors

id(name) == [type |-> IDENTIFIER_EXPRESSION, name |-> name]

YieldExpression(expression) ==
  [type |-> YIELD_EXPRESSION, expression |-> expression]

ParenExpression(expression) ==
  [type |-> PAREN_EXPRESSION, expression |-> expression]

BinaryOperator(left, operator, right) ==
  [type |-> BINARY_OPERATOR, left |-> left, operator |-> operator,
   right |-> right]

createAssignmentExpression(lhs, rhs) == BinaryOperator(lhs, EQUAL, rhs)

createCommaExpression(expressions) ==
  [type |-> COMMA_EXPRESSION, expressions |-> expressions]

createMemberExpression(operand, memberName) ==
  [type |-> MEMBER_EXPRESSION, operand |-> id(operand),
   memberName |-> memberName]

createExpressionStatement(expression) ==
  [type |-> EXPRESSION_STATEMENT, ref |-> 0, expression |-> expression]

createReturnStatement(expression) ==
  [type |-> RETURN_STATEMENT, ref |-> 0, expression |-> expression]

createVariableDeclaration(lvalue, initialiser) ==
  [lvalue |-> lvalue, initialiser |-> initialiser]

createVariableDeclarationList(declarationType, declarations) ==
  [declarationType |-> declarationType, declarations |-> declarations]

createVariableStatement(declarations) ==
  [type |-> VARIABLE_STATEMENT, ref |-> 0, declarations |-> declarations]

createBlock(statements) ==
  [type |-> BLOCK, ref |-> 0, statements |-> statements]

\* The same nodes as the parser makes them: with an identity of their own.
ExpressionStatement(ref, expression) ==
  [type |-> EXPRESSION_STATEMENT, ref |-> ref, expression |-> expression]

ReturnStatement(ref, expression) ==
  [type |-> RETURN_STATEMENT, ref |-> ref, expression |-> expression]

VariableStatement(ref, declarationType, declarations) ==
  [type |-> VARIABLE_STATEMENT, ref |-> ref,
   declarations |-> [declarationType |-> declarationType,
                     declarations |-> declarations]]

AwaitStatement(ref) == [type |-> AWAIT_STATEMENT, ref |-> ref]

ForInStatement(ref, body) ==
  [type |-> FOR_IN_STATEMENT, ref |-> ref, body |-> body]

Block(ref, statements) ==
  [type |-> BLOCK, ref |-> ref, statements |-> statements]

FunctionBody(ref, statements) ==
  [type |-> FUNCTION_BODY, ref |-> ref, statements |-> statements]

\* new FunctionDeclaration(location, name, isGenerator, ..., functionBody)
\* and new FunctionExpression(...): `constructor` is the node type.
Function(constructor, ref, name, isGenerator, functionBody) ==
  [type |-> constructor, ref |-> ref, name |-> name,
   isGenerator |-> isGenerator, functionBody |-> functionBody]

\* new GetAccessor(location, isStatic, name, ..., body), new SetAccessor(...)
Accessor(constructor, ref, isStatic, name, body) ==
  [type |-> constructor, ref |-> ref, isStatic |-> isStatic, name |-> name,
   body |-> body]

\* s.slice(1)
Slice1(s) == SubSeq(s, 2, Len(s))

\* ------------------------------------------- YieldExpressionTransformer

\* generator/isYieldAssign: an assignment whose right side is a yield.
isYieldAssign(t) ==
  /\ t.operator = EQUAL
  /\ t.right.type = YIELD_EXPRESSION

\* The while loop that removes the parentheses around the statement's
\* expression.
RECURSIVE StripParens(_)
StripParens(e) ==
  IF e.type = PAREN_EXPRESSION THEN StripParens(e.expression) ELSE e

commaWrap(ex, lhs, rhs) ==
  createExpressionStatement(
    createCommaExpression(
      <<createAssignmentExpression(lhs, rhs)>> \o Slice1(ex)))

\* varWrap with the declaration type written out instead of copied.
varWrapVar(t, tdd, lhs, rhs) ==
  createVariableStatement(
    createVariableDeclarationList(
      "var", <<createVariableDeclaration(lhs, rhs)>> \o Slice1(tdd)))

varWrap(t, tdd, lhs, rhs) ==
  createVariableStatement(
    createVariableDeclarationList(
      t.declarations.declarationType,
      <<createVariableDeclaration(lhs, rhs)>> \o Slice1(tdd)))

\* isYieldVarAssign without the test of the initialiser's type.
isYieldVarAssignAny(t) == t.initialiser # Null

isYieldVarAssign(t) ==
  /\ t.initialiser # Null
  /\ t.initialiser.type = YIELD_EXPRESSION

\* The callbacks handed to factor_ and factorAssign_ are closures; a closure
\* is the record of its function's name and the variables it captured.
CommaWrapClosure(ex) == [fn |-> "commaWrap", ex |-> ex]
VarWrapClosure(t, tdd) == [fn |-> "varWrap", tree |-> t, tdd |-> tdd]
ReturnClosure == [fn |-> "createReturnStatement"]
AssignClosure(lhs, wrap) == [fn |-> "factorAssign", lhs |-> lhs, wrap |-> wrap]

\* wrap(lhs, rhs)
Call2(wrap, lhs, rhs) ==
  IF wrap.fn = "commaWrap" THEN commaWrap(wrap.ex, lhs, rhs)
  ELSE varWrap(wrap.tree, wrap.tdd, lhs, rhs)

\* wrap(ident)
Call1(wrap, ident) ==
  IF wrap.fn = "createReturnStatement" THEN createReturnStatement(ident)
  ELSE Call2(wrap.wrap, wrap.lhs, ident)

factor_(expression, wrap) ==
  createBlock(<<createExpressionStatement(expression),
                Call1(wrap, createMemberExpression("$ctx", "sent"))>>)

factorAssign_(lhs, rhs, wrap) == factor_(rhs, AssignClosure(lhs, wrap))

\* transformExpressionStatement with a case for a bare assignment too.
transformExpressionStatementAssign(t) ==
  LET e == StripParens(t.expression)
      ex == e.expressions
  IN CASE e.type = BINARY_OPERATOR /\ isYieldAssign(e) ->
            factor_(e.right, [fn |-> "factorAssign", lhs |-> e.left,
                              wrap |-> CommaWrapClosure(<<e>>)])
       [] /\ e.type = COMMA_EXPRESSION
          /\ ex[1].type = BINARY_OPERATOR
          /\ isYieldAssign(ex[1]) ->
            factorAssign_(ex[1].left, ex[1].right, CommaWrapClosure(ex))
       [] OTHER -> t

transformExpressionStatement(t) ==
  LET e == StripParens(t.expression)
      ex == e.expressions
  IN IF /\ e.type = COMMA_EXPRESSION
        /\ ex[1].type = BINARY_OPERATOR
        /\ isYieldAssign(ex[1])
     THEN factorAssign_(ex[1].left, ex[1].right, CommaWrapClosure(ex))
     ELSE t

transformVariableStatement(t) ==
  LET tdd == t.declarations.declarations
  IN IF isYieldVarAssign(tdd[1])
     THEN factorAssign_(tdd[1].lvalue, tdd[1].initialiser,
                        VarWrapClosure(t, tdd))
     ELSE t

transformReturnStatement(t) ==
  IF t.expression # Null /\ t.expression.type = YIELD_EXPRESSION
  THEN factor_(t.expression, ReturnClosure)
  ELSE t

\* ------------------------------------------------------------ YieldFinder

\* YieldFinder(tree): what the body holds outside its nested functions.
RECURSIVE ContainsType(_, _)
ContainsType(t, type) ==
  \/ t.type = type
  \/ /\ t.type \in {FUNCTION_BODY, BLOCK}
     /\ \E i \in 1..Len(t.statements) : ContainsType(t.statements[i], type)
  \/ /\ t.type \in {FOR_IN_STATEMENT, FOR_STATEMENT}
     /\ ContainsType(t.body, type)
  \/ /\ t.type \in {EXPRESSION_STATEMENT, RETURN_STATEMENT, PAREN_EXPRESSION,
                    YIELD_EXPRESSION}
     /\ ContainsType(t.expression, type)
  \/ /\ t.type = VARIABLE_STATEMENT
     /\ \E i \in 1..Len(t.declarations.declarations) :
          ContainsType(t.declarations.declarations[i].initialiser, type)
  \/ /\ t.type = COMMA_EXPRESSION
     /\ \E i \in 1..Len(t.expressions) : ContainsType(t.expressions[i], type)
  \/ /\ t.type = BINARY_OPERATOR
     /\ (ContainsType(t.left, type) \/ ContainsType(t.right, type))

YieldFinder(t) ==
  [hasYield |-> ContainsType(t, YIELD_EXPRESSION),
   hasAwait |-> ContainsType(t, AWAIT_STATEMENT),
   hasForIn |-> ContainsType(t, FOR_IN_STATEMENT)]

\* ------------------------------------------------- the state-machine builders

\* GeneratorTransformer.transformGeneratorBody: the body as a state machine.
transformGeneratorBody(body) ==
  FunctionBody(0, <<[type |-> STATE_MACHINE, ref |-> 0,
                     machine |-> "generator"]>>)

\* AsyncTransformer.transformAsyncBody
transformAsyncBody(body) ==
  FunctionBody(0, <<[type |-> STATE_MACHINE, ref |-> 0,
                     machine |-> "async"]>>)

\* ------------------------------------------------------ the tree traversal

GeneratorTransformPass == "GeneratorTransformPass"
YieldExpressionTransformer == "YieldExpressionTransformer"
ForInTransformPass == "ForInTransformPass"

\* A transform's result: the node, and the log entries of the function
\* bodies transformBody_ processed on the way.
R(t, l) == [tree |-> t, log |-> l]

\* The node with one child replaced: the node itself when the child is the
\* same object, a new node otherwise.
WithField(t, field, child) ==
  IF t[field] = child THEN t
  ELSE [[t EXCEPT ![field] = child] EXCEPT !.ref = 0]

RECURSIVE transformAny(_, _)
RECURSIVE transformList(_, _)
RECURSIVE transformDeclarations(_, _)
RECURSIVE transformFunction_(_, _)
RECURSIVE transformBody_(_, _)

transformList(pass, list) ==
  IF list = <<>> THEN R(<<>>, <<>>)
  ELSE LET h == transformAny(pass, Head(list))
           r == transformList(pass, Tail(list))
       IN R(<<h.tree>> \o r.tree, h.log \o r.log)

transformDeclarations(pass, tdd) ==
  IF tdd = <<>> THEN R(<<>>, <<>>)
  ELSE LET h == transformAny(pass, Head(tdd).initialiser)
           r == transformDeclarations(pass, Tail(tdd))
       IN R(<<[Head(tdd) EXCEPT !.initialiser = h.tree]>> \o r.tree,
            h.log \o r.log)

\* A function node met by a pass that defines no method for it (the
\* YieldExpressionTransformer, the ForInTransformPass): the walk of such a
\* pass covers the body it is given and leaves the bodies of the functions
\* nested in it alone.
baseTransformFunctionDescending(pass, t) ==
  LET r == transformAny(pass, t.functionBody)
  IN R(WithField(t, "functionBody", r.tree), r.log)

baseTransformFunction(pass, t) == R(t, <<>>)

\* ParseTreeTransformer.transformAny, as each of the three passes inherits
\* or overrides it: the node's method of the pass when it defines one, the
\* base class's walk over the node's children otherwise.
transformAny(pass, t) ==
  CASE t.type \in {FUNCTION_BODY, BLOCK} ->
         LET r == transformList(pass, t.statements)
         IN R(WithField(t, "statements", r.tree), r.log)
    [] t.type = FOR_IN_STATEMENT ->
         LET r == transformAny(pass, t.body)
         IN IF pass = ForInTransformPass
            THEN R([type |-> FOR_STATEMENT, ref |-> 0, body |-> r.tree], r.log)
            ELSE R(WithField(t, "body", r.tree), r.log)
    [] t.type = FOR_STATEMENT ->
         LET r == transformAny(pass, t.body)
         IN R(WithField(t, "body", r.tree), r.log)
    [] t.type = EXPRESSION_STATEMENT ->
         IF pass = YieldExpressionTransformer
         THEN R(transformExpressionStatement(t), <<>>)
         ELSE LET r == transformAny(pass, t.expression)
              IN R(WithField(t, "expression", r.tree), r.log)
    [] t.type = RETURN_STATEMENT ->
         IF pass = YieldExpressionTransformer
         THEN R(transformReturnStatement(t), <<>>)
         ELSE LET r == transformAny(pass, t.expression)
              IN R(WithField(t, "expression", r.tree), r.log)
    [] t.type = VARIABLE_STATEMENT ->
         IF pass = YieldExpressionTransformer
         THEN R(transformVariableStatement(t), <<>>)
         ELSE LET r == transformDeclarations(pass, t.declarations.declarations)
              IN R(WithField(t, "declarations",
                             [t.declarations EXCEPT !.declarations = r.tree]),
                   r.log)
    [] t.type \in {FUNCTION_DECLARATION, FUNCTION_EXPRESSION} ->
         IF pass = GeneratorTransformPass
         THEN transformFunction_(t, t.type)
         ELSE baseTransformFunction(pass, t)
    [] t.type \in {PAREN_EXPRESSION, YIELD_EXPRESSION} ->
         LET r == transformAny(pass, t.expression)
         IN R([t EXCEPT !.expression = r.tree], r.log)
    [] t.type = COMMA_EXPRESSION ->
         LET r == transformList(pass, t.expressions)
         IN R([t EXCEPT !.expressions = r.tree], r.log)
    [] t.type = BINARY_OPERATOR ->
         LET l == transformAny(pass, t.left)
             r == transformAny(pass, t.right)
         IN R([t EXCEPT !.left = l.tree, !.right = r.tree], l.log \o r.log)
    [] OTHER -> R(t, <<>>)

\* ------------------------------------------------- GeneratorTransformPass

\* needsTransform without `isGenerator` in the test of line 214: a generator
\* with no yield and no await returns early.
needsTransformSuspendOnly(finder, isGenerator) ==
  IF isGenerator \/ transformOptions.deferredFunctions
  THEN finder.hasYield \/ finder.hasAwait
  ELSE ~(~isGenerator)

\* Lines 212-218: whether transformBody_ goes on past its early returns.
needsTransform(finder, isGenerator) ==
  IF isGenerator \/ transformOptions.deferredFunctions
  THEN finder.hasYield \/ isGenerator \/ finder.hasAwait
  ELSE ~(~isGenerator)

\* needsForIn without the test of the options.
needsForInAnyOptions(finder) == finder.hasForIn

\* Lines 222-223: whether the for-in loops are lowered.
needsForIn(finder) ==
  /\ finder.hasForIn
  /\ (transformOptions.generators \/ transformOptions.deferredFunctions)

\* selectBuilder without `isGenerator` in the test of line 227.
selectBuilderYieldOnly(finder, isGenerator) ==
  IF finder.hasYield
  THEN IF transformOptions.generators THEN "generator" ELSE "none"
  ELSE IF transformOptions.deferredFunctions THEN "async" ELSE "none"

\* Lines 227-241: the builder the body is handed to.
selectBuilder(finder, isGenerator) ==
  IF finder.hasYield \/ isGenerator
  THEN IF transformOptions.generators THEN "generator" ELSE "none"
  ELSE IF transformOptions.deferredFunctions THEN "async" ELSE "none"

\* What one call of transformBody_ did after the nested functions were
\* transformed: the sub-passes in the order they ran, what the
\* YieldExpressionTransformer was given and returned, what the builder was
\* given, and the body returned.
Lowering(body, passes, factorIn, factorOut, buildIn) ==
  [body |-> body, passes |-> passes, factorIn |-> factorIn,
   factorOut |-> factorOut, buildIn |-> buildIn]

\* lowerBody_ with the result of the YieldExpressionTransformer dropped: the
\* builder is given the body as it was before the factoring.
lowerBodyUnfactored(body, finder, isGenerator) ==
  IF ~needsTransform(finder, isGenerator)
  THEN Lowering(body, <<>>, Null, Null, Null)
  ELSE
    LET forIn == needsForIn(finder)
        body1 == IF forIn THEN transformAny(ForInTransformPass, body).tree
                 ELSE body
        p1 == IF forIn THEN <<"forin">> ELSE <<>>
        builder == selectBuilder(finder, isGenerator)
        body2 == transformAny(YieldExpressionTransformer, body1).tree
    IN CASE builder = "generator" ->
              Lowering(transformGeneratorBody(body1),
                       p1 \o <<"factor", "generator">>, body1, body2, body1)
         [] builder = "async" ->
              Lowering(transformAsyncBody(body1), p1 \o <<"async">>,
                       Null, Null, body1)
         [] OTHER -> Lowering(body1, p1, Null, Null, Null)

\* transformBody_ from line 212 on, `body` being the body with its nested
\* functions transformed.
lowerBody_(body, finder, isGenerator) ==
  IF ~needsTransform(finder, isGenerator)
  THEN Lowering(body, <<>>, Null, Null, Null)
  ELSE
    LET forIn == needsForIn(finder)
        body1 == IF forIn THEN transformAny(ForInTransformPass, body).tree
                 ELSE body
        p1 == IF forIn THEN <<"forin">> ELSE <<>>
        builder == selectBuilder(finder, isGenerator)
        body2 == transformAny(YieldExpressionTransformer, body1).tree
    IN CASE builder = "generator" ->
              Lowering(transformGeneratorBody(body2),
                       p1 \o <<"factor", "generator">>, body1, body2, body2)
         [] builder = "async" ->
              Lowering(transformAsyncBody(body1), p1 \o <<"async">>,
                       Null, Null, body1)
         [] OTHER -> Lowering(body1, p1, Null, Null, Null)

transformBody_(t, isGenerator) ==
  LET inner == transformAny(GeneratorTransformPass, t)
      finder == YieldFinder(t)
      low == lowerBody_(inner.tree, finder, isGenerator)
  IN R(low.body,
       inner.log \o
         <<[tree |-> t, isGenerator |-> isGenerator, finder |-> finder,
            inner |-> inner.tree, passes |-> <<"inner">> \o low.passes,
            factorIn |-> low.factorIn, factorOut |-> low.factorOut,
            buildIn |-> low.buildIn, body |-> low.body]>>)

\* transformFunction_ without the test of line 191: a new node every time.
transformFunctionRebuild(t, constructor) ==
  LET r == transformBody_(t.functionBody, t.isGenerator)
  IN R(Function(constructor, 0, t.name, FALSE, r.tree), r.log)

transformFunction_(t, constructor) ==
  LET r == transformBody_(t.functionBody, t.isGenerator)
  IN IF r.tree = t.functionBody THEN R(t, r.log)
     ELSE R(Function(constructor, 0, t.name, FALSE, r.tree), r.log)

transformFunctionDeclaration(t) == transformFunction_(t, FUNCTION_DECLARATION)

transformFunctionExpression(t) == transformFunction_(t, FUNCTION_EXPRESSION)

transformGetAccessor(t) ==
  LET r == transformBody_(t.body, FALSE)
  IN IF r.tree = t.body THEN R(t, r.log)
     ELSE R(Accessor(GET_ACCESSOR, 0, t.isStatic, t.name, r.tree), r.log)

transformSetAccessor(t) ==
  LET r == transformBody_(t.body, FALSE)
  IN IF r.tree = t.body THEN R(t, r.log)
     ELSE R(Accessor(SET_ACCESSOR, 0, t.isStatic, t.name, r.tree), r.log)

\* --------------------------------------------------------------- the inputs

\* The sequences over S of a length from lo to hi.
SeqsOf(S, lo, hi) == UNION {[1..k -> S] : k \in lo..hi}

RECURSIVE Parens(_, _)
Parens(e, n) == IF n = 0 THEN e ELSE ParenExpression(Parens(e, n - 1))

YieldE == YieldExpression(id("e"))
XYield == BinaryOperator(id("x"), EQUAL, YieldE)

\* The first element of a comma expression.
CommaFirsts ==
  {XYield, BinaryOperator(id("x"), PLUS_EQUAL, YieldE),
   BinaryOperator(id("x"), EQUAL, id("a")),
   BinaryOperator(id("x"), EQUAL, ParenExpression(YieldE)),
   ParenExpression(XYield), YieldE, id("a")}

\* The elements after the first: the parser makes a comma expression of at
\* least two expressions.
CommaTails ==
  SeqsOf({id("a"), YieldE, BinaryOperator(id("y"), EQUAL, YieldE)}, 1, MaxTail)

ExpressionInputs ==
  {Parens(e, n) :
     e \in {id("a"), YieldE, XYield,
            BinaryOperator(id("x"), PLUS_EQUAL, YieldE)}
           \cup {createCommaExpression(<<f>> \o r) :
                   f \in CommaFirsts, r \in CommaTails},
     n \in 0..MaxParen}

\* A variable statement declares at least one variable.
FirstDeclarations ==
  {createVariableDeclaration(id("x"), i) :
     i \in {YieldE, id("a"), Null, ParenExpression(YieldE)}}

DeclarationTails ==
  SeqsOf({createVariableDeclaration(id("y"), i) : i \in {id("b"), YieldE, Null}},
         0, MaxTail)

ReturnInputs ==
  {Null, id("a"), YieldE, ParenExpression(YieldE), XYield}

\* The statements the YieldExpressionTransformer's three methods are tried
\* on.
StatementInputs ==
  {ExpressionStatement(1, e) : e \in ExpressionInputs}
  \cup {VariableStatement(1, k, <<f>> \o r) :
          k \in {"var", "let", "const"}, f \in FirstDeclarations,
          r \in DeclarationTails}
  \cup {ReturnStatement(1, e) : e \in ReturnInputs}

Templates == 1..14

\* The statements of the function bodies the pass is tried on; r, r+1 and
\* r+2 are the refs of the statement and of the nodes inside it.
Statement(n, r) ==
  CASE n = 1 -> ExpressionStatement(r, id("a"))
    [] n = 2 -> ExpressionStatement(r, YieldE)
    [] n = 3 -> VariableStatement(r, "var",
                  <<createVariableDeclaration(id("x"), YieldE),
                    createVariableDeclaration(id("y"), id("b"))>>)
    [] n = 4 -> ReturnStatement(r, YieldE)
    [] n = 5 -> ExpressionStatement(r,
                  ParenExpression(createCommaExpression(<<XYield, id("a")>>)))
    [] n = 6 -> AwaitStatement(r)
    [] n = 7 -> ForInStatement(r,
                  Block(r + 1, <<ExpressionStatement(r + 2, id("a"))>>))
    [] n = 8 -> ForInStatement(r,
                  Block(r + 1, <<VariableStatement(r + 2, "let",
                    <<createVariableDeclaration(id("x"), YieldE)>>)>>))
    [] n = 9 -> Function(FUNCTION_DECLARATION, r, "g", FALSE,
                  FunctionBody(r + 1, <<ReturnStatement(r + 2, YieldE)>>))
    [] n = 10 -> Function(FUNCTION_DECLARATION, r, "g", TRUE,
                   FunctionBody(r + 1, <<ReturnStatement(r + 2, YieldE)>>))
    [] n = 11 -> Function(FUNCTION_DECLARATION, r, "g", FALSE,
                   FunctionBody(r + 1, <<AwaitStatement(r + 2)>>))
    [] n = 12 -> Function(FUNCTION_DECLARATION, r, "g", TRUE,
                   FunctionBody(r + 1, <<ForInStatement(r + 2,
                     ExpressionStatement(r + 3, id("a")))>>))
    [] n = 13 -> VariableStatement(r, "var",
                   <<createVariableDeclaration(id("f"),
                       Function(FUNCTION_EXPRESSION, r + 1, "", TRUE,
                         FunctionBody(r + 2,
                           <<ExpressionStatement(r + 3, YieldE)>>)))>>)
    [] n = 14 -> ExpressionStatement(r, XYield)

BodyInputs ==
  {FunctionBody(2, [i \in 1..Len(f) |-> Statement(f[i], 10 * i)]) :
     f \in SeqsOf(Templates, 0, MaxBody)}

FunctionInputs ==
  {Function(c, 1, "f", g, b) :
     c \in {FUNCTION_DECLARATION, FUNCTION_EXPRESSION}, g \in BOOLEAN,
     b \in BodyInputs}
  \cup {Accessor(c, 1, FALSE, "p", b) :
          c \in {GET_ACCESSOR, SET_ACCESSOR}, b \in BodyInputs}

\* ------------------------------------------------------------ the machine

Init ==
  /\ transformOptions \in [generators : BOOLEAN, deferredFunctions : BOOLEAN]
  /\ tree \in FunctionInputs \cup StatementInputs
  /\ method = ""
  /\ result = Null
  /\ log = <<>>
  /\ pc = "ready"

\* One call of a transform method of `pass` on the tree.
Call(name, type, r) ==
  /\ pc = "ready"
  /\ tree.type = type
  /\ method' = name
  /\ result' = r.tree
  /\ log' = r.log
  /\ pc' = "done"
  /\ UNCHANGED <<transformOptions, tree>>

TransformFunctionDeclaration ==
  Call("transformFunctionDeclaration", FUNCTION_DECLARATION,
       transformFunctionDeclaration(tree))

TransformFunctionExpression ==
  Call("transformFunctionExpression", FUNCTION_EXPRESSION,
       transformFunctionExpression(tree))

TransformGetAccessor ==
  Call("transformGetAccessor", GET_ACCESSOR, transformGetAccessor(tree))

TransformSetAccessor ==
  Call("transformSetAccessor", SET_ACCESSOR, transformSetAccessor(tree))

TransformExpressionStatement ==
  Call("transformExpressionStatement", EXPRESSION_STATEMENT,
       R(transformExpressionStatement(tree), <<>>))

TransformVariableStatement ==
  Call("transformVariableStatement", VARIABLE_STATEMENT,
       R(transformVariableStatement(tree), <<>>))

TransformReturnStatement ==
  Call("transformReturnStatement", RETURN_STATEMENT,
       R(transformReturnStatement(tree), <<>>))

Next ==
  \/ TransformFunctionDeclaration
  \/ TransformFunctionExpression
  \/ TransformGetAccessor
  \/ TransformSetAccessor
  \/ TransformExpressionStatement
  \/ TransformVariableStatement
  \/ TransformReturnStatement

Spec == Init /\ [][Next]_vars

\* ------------------------------------------------------------- properties

Done == pc = "done"

DriverMethods ==
  {"transformFunctionDeclaration", "transformFunctionExpression",
   "transformGetAccessor", "transformSetAccessor"}

RewriterMethods ==
  {"transformExpressionStatement", "transformVariableStatement",
   "transformReturnStatement"}

\* Whether sub-pass p ran on the body of log entry e.
Ran(e, p) == \E j \in 1..Len(e.passes) : e.passes[j] = p

Generators == transformOptions.generators
Deferred == transformOptions.deferredFunctions

\* The body of a function-bearing node, and whether it is a generator.
BodyOf(t) ==
  IF t.type \in {GET_ACCESSOR, SET_ACCESSOR} THEN t.body ELSE t.functionBody

IsGeneratorNode(t) ==
  t.type \in {FUNCTION_DECLARATION, FUNCTION_EXPRESSION} /\ t.isGenerator

\* The log entry of the node the method was called on: the last one, the
\* entries of the functions nested in it coming first.
Top == log[Len(log)]

\* The resumed-value slot, $ctx.sent.
ResumedSlot ==
  [type |-> MEMBER_EXPRESSION, operand |-> id("$ctx"), memberName |-> "sent"]

\* C1 as claimed: a generator whose body has no yield and no await is not
\* transformed: no sub-pass runs on it after the recursion into its nested
\* functions, and the body returned is the result of that recursion.
C1_NoSuspendGenerator(e) ==
  e.isGenerator /\ ~e.finder.hasYield /\ ~e.finder.hasAwait

C1_Original ==
  \A i \in 1..Len(log) :
    C1_NoSuspendGenerator(log[i]) =>
      log[i].passes = <<"inner">> /\ log[i].body = log[i].inner

\* C1 as amended: on a generator whose body has no yield and no await, the
\* YieldExpressionTransformer and the generator builder both run exactly
\* when generator support is enabled, the for-in pass runs exactly when a
\* for-in loop is reported and generator or deferred support is enabled, the
\* async builder never runs, and when none of them ran the body returned is
\* the result of the recursion into the nested functions.
C1_Amended ==
  \A i \in 1..Len(log) :
    C1_NoSuspendGenerator(log[i]) =>
      /\ Ran(log[i], "factor") <=> Generators
      /\ Ran(log[i], "generator") <=> Generators
      /\ ~Ran(log[i], "async")
      /\ Ran(log[i], "forin") <=>
           (log[i].finder.hasForIn /\ (Generators \/ Deferred))
      /\ log[i].passes = <<"inner">> => log[i].body = log[i].inner

C1_Witness ==
  /\ Done
  /\ \E i \in 1..Len(log) :
       /\ C1_NoSuspendGenerator(log[i])
       /\ Ran(log[i], "generator")
       /\ log[i].body # log[i].inner

\* C2 as claimed: called on a node that is not a generator, whose own body
\* holds no yield and no await, with deferred functions disabled, the pass
\* returns the node it was given.
C2_Case ==
  /\ Done
  /\ method \in DriverMethods
  /\ ~IsGeneratorNode(tree)
  /\ ~Top.finder.hasYield
  /\ ~Top.finder.hasAwait
  /\ ~Deferred

C2_Original == C2_Case => result = tree

\* C2 as amended: on such a node no sub-pass runs after the recursion into
\* the nested functions, and the node given is returned exactly when that
\* recursion returned the body it was given (no function nested in it was
\* replaced); for any node, the node given is returned exactly when
\* transformBody_ returned the body it was given.
C2_Amended ==
  (Done /\ method \in DriverMethods) =>
    /\ result = tree <=> Top.body = BodyOf(tree)
    /\ C2_Case =>
         /\ Top.passes = <<"inner">>
         /\ result = tree <=> Top.inner = BodyOf(tree)

C2_Witness ==
  /\ C2_Case
  /\ result = tree
  /\ Len(log) > 1

\* C3 as claimed: the for-in pass runs on a body if and only if the
\* YieldFinder reports a for-in loop in it and generator or deferred
\* support is enabled.
C3_Original ==
  \A i \in 1..Len(log) :
    Ran(log[i], "forin") <=>
      (log[i].finder.hasForIn /\ (Generators \/ Deferred))

\* C3 as amended: the for-in pass runs on a body if and only if the
\* YieldFinder reports a for-in loop in it, generator or deferred support is
\* enabled, and the body needs work: the node is a generator, or deferred
\* support is enabled and a yield or an await is reported.
C3_Amended ==
  \A i \in 1..Len(log) :
    Ran(log[i], "forin") <=>
      /\ log[i].finder.hasForIn
      /\ Generators \/ Deferred
      /\ \/ log[i].isGenerator
         \/ Deferred /\ (log[i].finder.hasYield \/ log[i].finder.hasAwait)

C3_Witness ==
  /\ Done
  /\ \E i \in 1..Len(log) : Ran(log[i], "forin") /\ ~log[i].isGenerator
  /\ \E i \in 1..Len(log) : Ran(log[i], "forin") /\ log[i].isGenerator

\* C10: at most one builder runs on a body; the async builder only with
\* deferred support enabled, on a node that is not a generator, whose body
\* has an await and no yield; the generator builder only with generator
\* support enabled, on a generator or a body with a yield.
C10_Builders ==
  \A i \in 1..Len(log) :
    /\ ~(Ran(log[i], "generator") /\ Ran(log[i], "async"))
    /\ Ran(log[i], "async") =>
         /\ Deferred
         /\ ~log[i].isGenerator
         /\ log[i].finder.hasAwait
         /\ ~log[i].finder.hasYield
    /\ Ran(log[i], "generator") =>
         /\ Generators
         /\ log[i].isGenerator \/ log[i].finder.hasYield

C10_Witness ==
  /\ Done
  /\ \E i \in 1..Len(log) : Ran(log[i], "async")
  /\ \E i \in 1..Len(log) : Ran(log[i], "generator") /\ ~log[i].isGenerator

\* The expression inside its parentheses.
RECURSIVE Unparenthesized(_)
Unparenthesized(e) ==
  IF e.type = PAREN_EXPRESSION THEN Unparenthesized(e.expression) ELSE e

\* L = S, S a yield expression.
IsSuspendAssign(e) ==
  /\ e.type = BINARY_OPERATOR
  /\ e.operator = "="
  /\ e.right.type = YIELD_EXPRESSION

\* The three shapes of statement the YieldExpressionTransformer factors.
CommaShape(t) ==
  /\ t.type = EXPRESSION_STATEMENT
  /\ Unparenthesized(t.expression).type = COMMA_EXPRESSION
  /\ IsSuspendAssign(Unparenthesized(t.expression).expressions[1])

DeclarationShape(t) ==
  /\ t.type = VARIABLE_STATEMENT
  /\ t.declarations.declarations[1].initialiser.type = YIELD_EXPRESSION

ReturnShape(t) ==
  /\ t.type = RETURN_STATEMENT
  /\ t.expression.type = YIELD_EXPRESSION

FactorableShape(t) == CommaShape(t) \/ DeclarationShape(t) \/ ReturnShape(t)

\* The suspend expression S of a statement of one of the three shapes.
SuspendOf(t) ==
  CASE CommaShape(t) -> Unparenthesized(t.expression).expressions[1].right
    [] DeclarationShape(t) -> t.declarations.declarations[1].initialiser
    [] ReturnShape(t) -> t.expression

\* Whether s is statement t with S replaced by the resumed-value slot.
SlotReplaced(t, s) ==
  CASE CommaShape(t) ->
         LET ex == Unparenthesized(t.expression).expressions
         IN /\ s.type = EXPRESSION_STATEMENT
            /\ s.expression.type = COMMA_EXPRESSION
            /\ Len(s.expression.expressions) = Len(ex)
            /\ s.expression.expressions[1] =
                 [type |-> BINARY_OPERATOR, left |-> ex[1].left,
                  operator |-> "=", right |-> ResumedSlot]
            /\ \A i \in 2..Len(ex) : s.expression.expressions[i] = ex[i]
    [] DeclarationShape(t) ->
         LET tdd == t.declarations.declarations
         IN /\ s.type = VARIABLE_STATEMENT
            /\ s.declarations.declarationType = t.declarations.declarationType
            /\ Len(s.declarations.declarations) = Len(tdd)
            /\ s.declarations.declarations[1] =
                 [lvalue |-> tdd[1].lvalue, initialiser |-> ResumedSlot]
            /\ \A i \in 2..Len(tdd) : s.declarations.declarations[i] = tdd[i]
    [] ReturnShape(t) ->
         /\ s.type = RETURN_STATEMENT
         /\ s.expression = ResumedSlot

\* C4 as claimed: transformExpressionStatement turns the statement
\* `x = yield e;` into the block { yield e; x = $ctx.sent; }.
C4_Case ==
  /\ Done
  /\ method = "transformExpressionStatement"
  /\ IsSuspendAssign(tree.expression)

C5_Factored ==
  (Done /\ method \in RewriterMethods /\ FactorableShape(tree)) =>
    /\ result.type = BLOCK
    /\ Len(result.statements) = 2
    /\ result.statements[1].type = EXPRESSION_STATEMENT
    /\ result.statements[1].expression = SuspendOf(tree)
    /\ SlotReplaced(tree, result.statements[2])

C5_Witness ==
  /\ Done
  /\ method = "transformVariableStatement"
  /\ DeclarationShape(tree)
  /\ tree.declarations.declarationType = "const"
  /\ Len(tree.declarations.declarations) = 3
  /\ result.type = BLOCK

RECURSIVE FunctionsIn(_)
FunctionsIn(t) ==
  CASE t.type \in {FUNCTION_DECLARATION, FUNCTION_EXPRESSION} -> {t}
    [] t.type \in {FUNCTION_BODY, BLOCK} ->
         UNION {FunctionsIn(t.statements[i]) : i \in 1..Len(t.statements)}
    [] t.type \in {FOR_IN_STATEMENT, FOR_STATEMENT} -> FunctionsIn(t.body)
    [] t.type \in {EXPRESSION_STATEMENT, RETURN_STATEMENT, PAREN_EXPRESSION,
                   YIELD_EXPRESSION} -> FunctionsIn(t.expression)
    [] t.type = VARIABLE_STATEMENT ->
         UNION {FunctionsIn(t.declarations.declarations[i].initialiser) :
                  i \in 1..Len(t.declarations.declarations)}
    [] t.type = COMMA_EXPRESSION ->
         UNION {FunctionsIn(t.expressions[i]) : i \in 1..Len(t.expressions)}
    [] t.type = BINARY_OPERATOR -> FunctionsIn(t.left) \cup FunctionsIn(t.right)
    [] OTHER -> {}

\* The expression, variable and return statements of a body, outside the
\* functions nested in it.
RECURSIVE OwnStatements(_)
OwnStatements(t) ==
  CASE t.type \in {FUNCTION_BODY, BLOCK} ->
         UNION {OwnStatements(t.statements[i]) : i \in 1..Len(t.statements)}
    [] t.type \in {FOR_IN_STATEMENT, FOR_STATEMENT} -> OwnStatements(t.body)
    [] t.type \in {EXPRESSION_STATEMENT, VARIABLE_STATEMENT,
                   RETURN_STATEMENT} -> {t}
    [] OTHER -> {}

NonGenerators(fs) == {f \in fs : ~f.isGenerator}

\* C6: the YieldExpressionTransformer applied to a function's body leaves
\* every function nested in it that is not a generator as it was: the same
\* nodes go in and come out.
C6_Isolation ==
  \A i \in 1..Len(log) :
    Ran(log[i], "factor") =>
      NonGenerators(FunctionsIn(log[i].factorOut)) =
        NonGenerators(FunctionsIn(log[i].factorIn))

C6_Witness ==
  /\ Done
  /\ \E i \in 1..Len(log) :
       /\ Ran(log[i], "factor")
       /\ log[i].factorOut # log[i].factorIn
       /\ \E f \in NonGenerators(FunctionsIn(log[i].factorIn)) :
            \E s \in OwnStatements(f.functionBody) : FactorableShape(s)

\* C7 as claimed: a generator function is returned with its generator flag
\* cleared if and only if a builder ran on its body.
C7_Original ==
  (/\ Done
   /\ method \in {"transformFunctionDeclaration", "transformFunctionExpression"}
   /\ tree.isGenerator) =>
    (result.isGenerator = FALSE <=>
       (Ran(Top, "generator") \/ Ran(Top, "async")))

\* The place of a sub-pass in the order of transformBody_.
Rank(p) ==
  CASE p = "inner" -> 1
    [] p = "forin" -> 2
    [] p = "factor" -> 3
    [] p \in {"generator", "async"} -> 4

\* C9: on every body the sub-passes run in the order nested functions,
\* for-in pass, YieldExpressionTransformer, builder, each at most once; the
\* generator builder runs only right after the YieldExpressionTransformer,
\* on the body that returned, which holds no statement of the three shapes
\* outside its nested functions.
C9_Order ==
  \A i \in 1..Len(log) :
    LET e == log[i]
    IN /\ e.passes[1] = "inner"
       /\ \A j, k \in 1..Len(e.passes) :
            j < k => Rank(e.passes[j]) < Rank(e.passes[k])
       /\ (Ran(e, "factor") /\ ~Ran(e, "forin")) => e.factorIn = e.inner
       /\ \A j \in 1..Len(e.passes) :
            e.passes[j] = "generator" =>
              /\ j > 1
              /\ e.passes[j - 1] = "factor"
              /\ e.buildIn = e.factorOut
              /\ \A s \in OwnStatements(e.buildIn) : ~FactorableShape(s)

C9_Witness ==
  /\ Done
  /\ \E i \in 1..Len(log) :
       /\ log[i].passes = <<"inner", "forin", "factor", "generator">>
       /\ \E s \in OwnStatements(log[i].factorIn) : FactorableShape(s)

====
